---- MODULE Spec2Model ----
(***************************************************************************)
(* Model of drone-ssh's plugin.go: Plugin.Exec (the host fan-out           *)
(* coordinator), Plugin.exec (one execution unit per host, with its stream *)
(* multiplexer loop) and retryStream (the retry/backoff connector).        *)
(*                                                                         *)
(* Time is counted in whole backoff units (time.Second) on a clock local   *)
(* to each unit that starts when retryStream creates its deadline timer.   *)
(* A timer fires at the instant it is due; a blocked select is woken by    *)
(* the timer that is due first, and by either one when both are due at the *)
(* same instant.                                                           *)
(***************************************************************************)
EXTENDS Integers, Sequences, FiniteSets, TLC

VARIABLES
    cfg,         \* p.Config: the request (constant during a run)
    remote,      \* what the remote side does in this run (constant during a run)
    coordPc,     \* position of Exec: "validate", "spawn", "inExec", "select", "returned"
    idx,         \* index of the next host of the for loop at line 157
    result,      \* value returned by Exec (NoResult until it returns)
    banner,      \* TRUE once the success banner of lines 178-180 is printed
    wg,          \* the sync.WaitGroup counter
    errChannel,  \* the buffered channel of line 155, as the sequence it holds
    finished,    \* TRUE once the channel of line 156 is closed
    waiterPc,    \* the goroutine of lines 165-168: "none", "wait", "closed"
    upc,         \* position of each host's exec
    now,         \* each unit's clock, 0 when its deadline timer is created
    wait,        \* retryStream's wait variable
    waited,      \* total time a unit spent in completed backoff waits
    outcomes,    \* the kinds of error ssh.Stream returned, one per attempt
    started,     \* the clock value at which the latest attempt began
    err,         \* exec's err variable
    isTimeout,   \* exec's isTimeout variable
    errMsgs,     \* number of values received on errChan so far
    written,     \* every value sent on errChannel, in the order of the sends
    log,         \* the lines each unit has written to p.Writer, in order
    envBlock,    \* exec's env variable: the assignments put before the script
    outLines,    \* number of lines received on stdoutChan so far
    errLines,    \* number of lines received on stderrChan so far
    errSeen,     \* TRUE once a non-nil value was received on errChan
    doneRecv     \* TRUE once a value was received on doneChan

vars == <<cfg, remote, coordPc, idx, result, banner, wg, errChannel, finished, waiterPc,
          upc, now, wait, waited, outcomes, started, err, isTimeout, errMsgs,
          written, log, envBlock, outLines, errLines, errSeen, doneRecv>>

coordVars == <<coordPc, idx, result, banner>>
connVars == <<now, wait, waited, outcomes, started>>
logVars == <<log, envBlock, outLines, errLines>>
histVars == <<errSeen, doneRecv>>

----------------------------------------------------------------------------
(* Bounds of the model. *)

MaxHosts == 2
MaxRetryTimeout == 3
MaxAttemptTime == 1
MaxErrMsgs == 2
MaxLines == 2
MaxValueLen == 3

(* Constants of the program. *)

ErrChanCap == 1
InitialWait == 1
BackoffFactor == 2

----------------------------------------------------------------------------
(* Error values.  An error is identified by its kind, the host whose unit  *)
(* produced it and, for a connect error, the number of the attempt (for an *)
(* asynchronous command error, the number of the errChan message).         *)

Err(kind, h, n) == [kind |-> kind, host |-> h, n |-> n]
Nil == Err("nil", 0, 0)
NoResult == Err("none", 0, 0)
MissingHostOrUser == Err("missingHostOrUser", 0, 0)
MissingPasswordOrKey == Err("missingPasswordOrKey", 0, 0)
SetPasswordandKey == Err("setPasswordandKey", 0, 0)
CommandTimeOut(h) == Err("commandTimeOut", h, 0)

Hosts == 1..cfg.nHosts

(* The checks of Exec with the key-and-password check skipped when a key   *)
(* path is given.                                                          *)
ValidationErrorKeyPath(c) ==
    IF c.nHosts = 0 /\ ~c.user THEN MissingHostOrUser
    ELSE IF ~c.key /\ ~c.password /\ ~c.keyPath THEN MissingPasswordOrKey
    ELSE IF c.key /\ c.password /\ ~c.keyPath THEN SetPasswordandKey
    ELSE Nil

(* The checks of Exec before the fan-out; Nil when the request passes. *)
ValidationError(c) ==
    IF c.nHosts = 0 /\ ~c.user THEN MissingHostOrUser
    ELSE IF ~c.key /\ ~c.password /\ ~c.keyPath THEN MissingPasswordOrKey
    ELSE IF c.key /\ c.password THEN SetPasswordandKey
    ELSE Nil

(* Every error taken for a net.OpError. *)
IsOpErrorAlways(e) == TRUE

(* Line 200: the type assertion to net.OpError, the errors retried on. *)
IsOpError(e) == e.kind = "OpError"

(* A backoff that grows by the initial wait instead of doubling. *)
DoubleLinear(w) == w + InitialWait

(* wait *= 2 *)
Double(w) == w * BackoffFactor

(* The select of retryStream with the deadline timer created anew by each *)
(* select, so that it is due d after the select is entered.                *)
SelectOutcomesRestart(n, w, d) ==
    {o \in {"timeout"} : d <= w} \cup {o \in {"wait"} : w <= d}

(* The select of retryStream without its deadline case. *)
SelectOutcomesNoDeadline(n, w, d) == {"wait"}

(* The select of retryStream entered at clock n with wait w and the        *)
(* deadline timer due at d: the cases that can be taken.                   *)
SelectOutcomes(n, w, d) ==
    {o \in {"timeout"} : d <= n + w} \cup {o \in {"wait"} : n < d /\ n + w <= d}

(* A send that overwrites what the slot holds. *)
ChanSendOverwrite(ch, v) == {<<v>>}

(* A send of v on the buffered channel holding ch: the possible contents   *)
(* after the send; none while the buffer is full (the sender blocks).      *)
ChanSend(ch, v) == IF Len(ch) < ErrChanCap THEN {Append(ch, v)} ELSE {}

(* Where exec goes after the statement at line 117, and after the loop.    *)
AfterErrCheck(t) == IF ~t THEN "sendTimeout" ELSE "wgDone"
AfterLoop(e, t) == IF e # Nil THEN "sendErr" ELSE AfterErrCheck(t)

----------------------------------------------------------------------------
(* Strings are sequences of one-character strings. *)

Quote == "'"
Backslash == "\\"
Chars == {"a", " ", Quote, Backslash}

(* strings.Replace(arg, "'", `'\''`, -1) *)
RECURSIVE ReplaceQuotes(_)
ReplaceQuotes(s) ==
    IF s = <<>> THEN <<>>
    ELSE (IF Head(s) = Quote THEN <<Quote, Backslash, Quote, Quote>> ELSE <<Head(s)>>)
            \o ReplaceQuotes(Tail(s))

(* The argument put between quotes as it is. *)
escapeArgPlain(arg) == <<Quote>> \o arg \o <<Quote>>

escapeArg(arg) == <<Quote>> \o ReplaceQuotes(arg) \o <<Quote>>

(* strings.ToUpper on the names of the model. *)
ToUpper(s) ==
    [i \in DOMAIN s |-> IF s[i] = "k" THEN "K" ELSE IF s[i] = "j" THEN "J" ELSE s[i]]

(* Lines 79-85: the assignments for the names of keys that environ sets. *)
RECURSIVE EnvAssignments(_, _)
EnvAssignments(keys, environ) ==
    IF keys = <<>> THEN <<>>
    ELSE LET key == ToUpper(Head(keys))
         IN (IF key \in DOMAIN environ
                THEN <<key \o <<"=">> \o escapeArg(environ[key])>>
                ELSE <<>>)
               \o EnvAssignments(Tail(keys), environ)

(* A message given to p.log: its first word, and for a line of the remote  *)
(* command the stream it was sent on and its number on that stream.        *)
Msg(tag, stream, n) == [tag |-> tag, stream |-> stream, n |-> n]

(* A stdout line logged with the tag of stderr lines. *)
OutMsgAsErr(k) == Msg("err:", "stdout", k)

(* Line 107: the message logged for the k-th line received on stdoutChan. *)
OutMsg(k) == Msg("out:", "stdout", k)

(* Line 109: the message logged for the k-th line received on stderrChan. *)
ErrMsg(k) == Msg("err:", "stderr", k)

(* Plugin.log writing the prefix whatever the number of hosts. *)
LogLinePrefixed(count, host, msg) == [prefix |-> host, msg |-> msg]

(* Plugin.log: the line written for host, with its prefix (0 for none). *)
LogLine(count, host, msg) ==
    IF count = 1 THEN [prefix |-> 0, msg |-> msg]
    ELSE [prefix |-> host, msg |-> msg]

(* Lines 75-77 and, with Debug, lines 90-92. *)
PrologueMsgs(debug) ==
    <<Msg("======CMD======", "", 0), Msg("script", "", 0), Msg("======END======", "", 0)>>
    \o (IF debug
           THEN <<Msg("======ENV======", "", 0), Msg("env", "", 0),
                  Msg("======END======", "", 0)>>
           ELSE <<>>)

(* A non-nil value received on errChan ends the loop. *)
AfterErrRecvBreak(v) == IF v # Nil THEN "sendErr" ELSE "loop"

(* What exec does with a value received on errChan: the loop goes on. *)
AfterErrRecv(v) == "loop"

(* A wait that returns while one unit is still to signal. *)
WaitReturnsEarly(n) == n <= 1

(* wg.Wait() returns when the counter is zero. *)
WaitReturns(n) == n = 0

----------------------------------------------------------------------------
(* The requests and remote behaviours a run is drawn from.  A request says *)
(* which of the Config fields are non-empty; the remote side is bounded by *)
(* the longest ssh.Stream call and by the number of values a session sends *)
(* on errChan.                                                             *)
Run(c, r) == [cfg |-> c, remote |-> r]

Request(n, u, k, pw, kp, s, rt) ==
    [nHosts |-> n, user |-> u, key |-> k, password |-> pw, keyPath |-> kp,
     sync |-> s, retryTimeout |-> rt, debug |-> FALSE, envs |-> <<>>,
     environ |-> <<>>]

Remote(t, m) == [maxTime |-> t, maxErrs |-> m, maxLines |-> 0]

(* Every combination of empty and non-empty fields, on at most one host. *)
ConfigRuns ==
    {Run(Request(n, u, k, pw, kp, s, 0), Remote(0, 1)) :
        n \in 0..1, u \in BOOLEAN, k \in BOOLEAN, pw \in BOOLEAN,
        kp \in BOOLEAN, s \in BOOLEAN}

(* Several hosts, each attempt returning at once. *)
FanoutRuns ==
    {Run(Request(n, TRUE, TRUE, FALSE, FALSE, s, 0), Remote(0, 1)) :
        n \in 2..MaxHosts, s \in BOOLEAN}

(* One host, with every retry deadline and the slowest remote side. *)
RetryRuns ==
    {Run(Request(1, TRUE, TRUE, FALSE, FALSE, s, rt), Remote(MaxAttemptTime, MaxErrMsgs)) :
        s \in BOOLEAN, rt \in 0..MaxRetryTimeout}

(* Strings of at most n characters. *)
RECURSIVE Strings(_)
Strings(n) ==
    IF n = 0 THEN {<<>>}
    ELSE Strings(n - 1) \cup {Append(s, c) : s \in Strings(n - 1), c \in Chars}

(* One host, with a list of names to forward and a process environment    *)
(* that sets K to some string or sets nothing.  cfg.environ is the         *)
(* environment of the process, which line 82 reads.                        *)
EnvRuns ==
    {Run([Request(1, TRUE, TRUE, FALSE, FALSE, FALSE, 0)
             EXCEPT !.debug = d, !.envs = e, !.environ = env], Remote(0, 0)) :
        d \in BOOLEAN,
        e \in {<<>>, <<<<"k">>>>, <<<<"K">>>>, <<<<"j">>, <<"k">>>>},
        env \in {<<>>} \cup {[key \in {<<"K">>} |-> v] : v \in Strings(MaxValueLen)}}

(* One host whose session sends lines on stdoutChan and stderrChan, and    *)
(* two hosts, one after the other, whose sessions send one line on each.   *)
StreamRuns ==
    {Run([Request(1, TRUE, TRUE, FALSE, FALSE, s, 0) EXCEPT !.debug = d],
         [Remote(0, 1) EXCEPT !.maxLines = MaxLines]) : s \in BOOLEAN, d \in BOOLEAN}
    \cup {Run(Request(2, TRUE, TRUE, FALSE, FALSE, TRUE, 0),
              [Remote(0, 1) EXCEPT !.maxLines = 1])}

Runs == ConfigRuns \cup FanoutRuns \cup RetryRuns \cup EnvRuns \cup StreamRuns

AllHosts == 1..MaxHosts

(* The state when Exec is called, for a run drawn from runs. *)
InitOf(runs) ==
    /\ \E run \in runs : cfg = run.cfg /\ remote = run.remote
    /\ coordPc = "validate"
    /\ idx = 1
    /\ result = NoResult
    /\ banner = FALSE
    /\ wg = 0
    /\ errChannel = <<>>
    /\ finished = FALSE
    /\ waiterPc = "none"
    /\ upc = [h \in AllHosts |-> "idle"]
    /\ now = [h \in AllHosts |-> 0]
    /\ wait = [h \in AllHosts |-> InitialWait]
    /\ waited = [h \in AllHosts |-> 0]
    /\ outcomes = [h \in AllHosts |-> <<>>]
    /\ started = [h \in AllHosts |-> 0]
    /\ err = [h \in AllHosts |-> Nil]
    /\ isTimeout = [h \in AllHosts |-> TRUE]
    /\ errMsgs = [h \in AllHosts |-> 0]
    /\ written = <<>>
    /\ log = [h \in AllHosts |-> <<>>]
    /\ envBlock = [h \in AllHosts |-> <<>>]
    /\ outLines = [h \in AllHosts |-> 0]
    /\ errLines = [h \in AllHosts |-> 0]
    /\ errSeen = [h \in AllHosts |-> FALSE]
    /\ doneRecv = [h \in AllHosts |-> FALSE]

Init == InitOf(Runs)

----------------------------------------------------------------------------
(* Plugin.Exec *)

(* Lines 141-155: the three checks, then wg.Add and the two channels. *)
Validate ==
    /\ coordPc = "validate"
    /\ IF ValidationError(cfg) # Nil
       THEN /\ coordPc' = "returned"
            /\ result' = ValidationError(cfg)
            /\ wg' = wg
       ELSE /\ coordPc' = "spawn"
            /\ result' = result
            /\ wg' = cfg.nHosts
    /\ UNCHANGED <<cfg, remote, idx, banner, errChannel, finished, waiterPc, upc, connVars,
                   err, isTimeout, errMsgs, written,
                   logVars, histVars>>

(* Line 159 with the call made in a goroutine, as at line 161. *)
SyncCallGo ==
    /\ coordPc = "spawn"
    /\ cfg.sync
    /\ idx <= cfg.nHosts
    /\ upc' = [upc EXCEPT ![idx] = "begin"]
    /\ idx' = idx + 1
    /\ UNCHANGED <<cfg, remote, coordPc, result, banner, wg, errChannel, finished, waiterPc,
                   connVars, err, isTimeout, errMsgs, written, logVars, histVars>>

(* Line 159: in sync mode Exec itself runs exec for the next host. *)
SyncCall ==
    /\ coordPc = "spawn"
    /\ cfg.sync
    /\ idx <= cfg.nHosts
    /\ coordPc' = "inExec"
    /\ upc' = [upc EXCEPT ![idx] = "begin"]
    /\ UNCHANGED <<cfg, remote, idx, result, banner, wg, errChannel, finished, waiterPc,
                   connVars, err, isTimeout, errMsgs, written,
                   logVars, histVars>>

(* Line 161: otherwise a goroutine is started for the next host. *)
GoExec ==
    /\ coordPc = "spawn"
    /\ ~cfg.sync
    /\ idx <= cfg.nHosts
    /\ upc' = [upc EXCEPT ![idx] = "begin"]
    /\ idx' = idx + 1
    /\ UNCHANGED <<cfg, remote, coordPc, result, banner, wg, errChannel, finished, waiterPc,
                   connVars, err, isTimeout, errMsgs, written,
                   logVars, histVars>>

(* Lines 165-168: after the loop, the goroutine that waits for the units. *)
GoWaiter ==
    /\ coordPc = "spawn"
    /\ idx > cfg.nHosts
    /\ waiterPc' = "wait"
    /\ coordPc' = "select"
    /\ UNCHANGED <<cfg, remote, idx, result, banner, wg, errChannel, finished, upc,
                   connVars, err, isTimeout, errMsgs, written,
                   logVars, histVars>>

(* Lines 166-167: wg.Wait() returns once the counter is zero. *)
WaiterClose ==
    /\ waiterPc = "wait"
    /\ WaitReturns(wg)
    /\ waiterPc' = "closed"
    /\ finished' = TRUE
    /\ UNCHANGED <<cfg, remote, coordVars, wg, errChannel, upc, connVars, err, isTimeout,
                   errMsgs, written,
                   logVars, histVars>>

(* Line 171, then lines 178-182. *)
SelectFinished ==
    /\ coordPc = "select"
    /\ finished
    /\ banner' = TRUE
    /\ result' = Nil
    /\ coordPc' = "returned"
    /\ UNCHANGED <<cfg, remote, idx, wg, errChannel, finished, waiterPc, upc, connVars,
                   err, isTimeout, errMsgs, written,
                   logVars, histVars>>

(* Lines 172-175, and lines 178-182 for a nil value. *)
SelectErr ==
    /\ coordPc = "select"
    /\ errChannel # <<>>
    /\ errChannel' = Tail(errChannel)
    /\ result' = Head(errChannel)
    /\ banner' = (Head(errChannel) = Nil)
    /\ coordPc' = "returned"
    /\ UNCHANGED <<cfg, remote, idx, wg, finished, waiterPc, upc, connVars, err,
                   isTimeout, errMsgs, written,
                   logVars, histVars>>

----------------------------------------------------------------------------
(* retryStream, called at line 95 *)

(* Line 192 to line 202: one call of ssh.Stream, which takes d time units  *)
(* and returns the error e.                                                *)
Attempt(h) ==
    /\ upc[h] = "connect"
    /\ \E d \in 0..remote.maxTime, k \in {"nil", "OpError", "ConnectError"} :
          LET n == Len(outcomes[h]) + 1
              e == IF k = "nil" THEN Nil ELSE Err(k, h, n)
          IN /\ started' = [started EXCEPT ![h] = now[h]]
             /\ now' = [now EXCEPT ![h] = now[h] + d]
             /\ outcomes' = [outcomes EXCEPT ![h] = Append(outcomes[h], k)]
             /\ err' = [err EXCEPT ![h] = e]
             /\ upc' = [upc EXCEPT ![h] =
                           IF e = Nil THEN "loop"
                           ELSE IF ~IsOpError(e) THEN "sendConnErr"
                           ELSE "backoff"]
    /\ UNCHANGED <<cfg, remote, coordVars, wg, errChannel, finished, waiterPc, wait, waited,
                   isTimeout, errMsgs, written,
                   logVars, histVars>>

(* Lines 204-206: the deadline timer is due first, or already was. *)
RetryDeadline(h) ==
    /\ upc[h] = "backoff"
    /\ "timeout" \in SelectOutcomes(now[h], wait[h], cfg.retryTimeout)
    /\ now' = [now EXCEPT ![h] = IF now[h] < cfg.retryTimeout
                                    THEN cfg.retryTimeout ELSE now[h]]
    /\ upc' = [upc EXCEPT ![h] = "sendConnErr"]
    /\ UNCHANGED <<cfg, remote, coordVars, wg, errChannel, finished, waiterPc, wait, waited,
                   outcomes, started, err, isTimeout, errMsgs, written,
                   logVars, histVars>>

(* Lines 207-212: the backoff wait ends and the wait is doubled. *)
BackoffElapsed(h) ==
    /\ upc[h] = "backoff"
    /\ "wait" \in SelectOutcomes(now[h], wait[h], cfg.retryTimeout)
    /\ now' = [now EXCEPT ![h] = now[h] + wait[h]]
    /\ waited' = [waited EXCEPT ![h] = waited[h] + wait[h]]
    /\ wait' = [wait EXCEPT ![h] = Double(wait[h])]
    /\ upc' = [upc EXCEPT ![h] = "connect"]
    /\ UNCHANGED <<cfg, remote, coordVars, wg, errChannel, finished, waiterPc, outcomes,
                   started, err, isTimeout, errMsgs, written,
                   logVars, histVars>>

----------------------------------------------------------------------------
(* Plugin.exec *)

(* Send of the unit's value v on errChannel, going on at position next. *)
Send(h, v, next) ==
    /\ errChannel' \in ChanSend(errChannel, v)
    /\ written' = Append(written, v)
    /\ upc' = [upc EXCEPT ![h] = next]
    /\ UNCHANGED <<cfg, remote, coordVars, wg, finished, waiterPc, connVars, err, isTimeout,
                   errMsgs,
                   logVars, histVars>>

(* Lines 55-93: the command is logged and the env block is built. *)
Prologue(h) ==
    /\ upc[h] = "begin"
    /\ log' = [log EXCEPT ![h] =
                  log[h] \o [i \in DOMAIN PrologueMsgs(cfg.debug) |->
                               LogLine(cfg.nHosts, h, PrologueMsgs(cfg.debug)[i])]]
    /\ envBlock' = [envBlock EXCEPT ![h] = EnvAssignments(cfg.envs, cfg.environ)]
    /\ upc' = [upc EXCEPT ![h] = "connect"]
    /\ UNCHANGED <<cfg, remote, coordVars, wg, errChannel, finished, waiterPc, connVars,
                   err, isTimeout, errMsgs, written, outLines, errLines, histVars>>

(* Lines 106-107: the next line of stdoutChan is logged. *)
RecvOut(h) ==
    /\ upc[h] = "loop"
    /\ outLines[h] < remote.maxLines
    /\ outLines' = [outLines EXCEPT ![h] = outLines[h] + 1]
    /\ log' = [log EXCEPT ![h] =
                  Append(log[h], LogLine(cfg.nHosts, h, OutMsg(outLines[h] + 1)))]
    /\ UNCHANGED <<cfg, remote, coordVars, wg, errChannel, finished, waiterPc, upc, connVars,
                   err, isTimeout, errMsgs, written, envBlock, errLines, histVars>>

(* Lines 108-109: the next line of stderrChan is logged. *)
RecvErrLine(h) ==
    /\ upc[h] = "loop"
    /\ errLines[h] < remote.maxLines
    /\ errLines' = [errLines EXCEPT ![h] = errLines[h] + 1]
    /\ log' = [log EXCEPT ![h] =
                  Append(log[h], LogLine(cfg.nHosts, h, ErrMsg(errLines[h] + 1)))]
    /\ UNCHANGED <<cfg, remote, coordVars, wg, errChannel, finished, waiterPc, upc, connVars,
                   err, isTimeout, errMsgs, written, envBlock, outLines, histVars>>

(* Line 97 *)
SendConnErr(h) ==
    /\ upc[h] = "sendConnErr"
    /\ Send(h, err[h], "wgDone")

(* Line 110: a value arrives on errChan and is stored in err. *)
RecvErr(h) ==
    /\ upc[h] = "loop"
    /\ errMsgs[h] < remote.maxErrs
    /\ errMsgs' = [errMsgs EXCEPT ![h] = errMsgs[h] + 1]
    /\ \E v \in {Nil, Err("CommandError", h, errMsgs[h] + 1)} :
          /\ err' = [err EXCEPT ![h] = v]
          /\ errSeen' = [errSeen EXCEPT ![h] = errSeen[h] \/ v # Nil]
          /\ upc' = [upc EXCEPT ![h] = AfterErrRecv(v)]
    /\ UNCHANGED <<cfg, remote, coordVars, wg, errChannel, finished, waiterPc, connVars,
                   isTimeout, written, logVars, doneRecv>>

(* Lines 104-105 and the test of line 115: the completion signal ends the  *)
(* loop.                                                                   *)
RecvDone(h) ==
    /\ upc[h] = "loop"
    /\ \E b \in BOOLEAN :
          /\ isTimeout' = [isTimeout EXCEPT ![h] = b]
          /\ upc' = [upc EXCEPT ![h] = AfterLoop(err[h], b)]
    /\ doneRecv' = [doneRecv EXCEPT ![h] = TRUE]
    /\ UNCHANGED <<cfg, remote, coordVars, wg, errChannel, finished, waiterPc, connVars, err,
                   errMsgs, written, logVars, errSeen>>

(* Line 116 and the test of line 120 *)
SendErr(h) ==
    /\ upc[h] = "sendErr"
    /\ Send(h, err[h], AfterErrCheck(isTimeout[h]))

(* Line 121 *)
SendTimeout(h) ==
    /\ upc[h] = "sendTimeout"
    /\ Send(h, CommandTimeOut(h), "wgDone")

(* Line 125; in sync mode exec then returns to the loop of Exec. *)
WgDone(h) ==
    /\ upc[h] = "wgDone"
    /\ upc' = [upc EXCEPT ![h] = "finished"]
    /\ wg' = wg - 1
    /\ IF cfg.sync
       THEN coordPc' = "spawn" /\ idx' = idx + 1
       ELSE UNCHANGED <<coordPc, idx>>
    /\ UNCHANGED <<cfg, remote, result, banner, errChannel, finished, waiterPc, connVars,
                   err, isTimeout, errMsgs, written,
                   logVars, histVars>>

----------------------------------------------------------------------------
Coordinator == Validate \/ SyncCall \/ GoExec \/ GoWaiter \/ SelectFinished \/ SelectErr

Unit(h) ==
    \/ Prologue(h)
    \/ Attempt(h)
    \/ RetryDeadline(h)
    \/ BackoffElapsed(h)
    \/ SendConnErr(h)
    \/ RecvOut(h)
    \/ RecvErrLine(h)
    \/ RecvErr(h)
    \/ RecvDone(h)
    \/ SendErr(h)
    \/ SendTimeout(h)
    \/ WgDone(h)

Next == Coordinator \/ WaiterClose \/ \E h \in AllHosts : Unit(h)

Spec == Init /\ [][Next]_vars

(* Go schedules every goroutine that can run, every ssh.Stream call        *)
(* returns and every opened session delivers its completion signal.        *)
Fairness ==
    /\ WF_vars(Coordinator)
    /\ WF_vars(WaiterClose)
    /\ \A h \in AllHosts : WF_vars(Unit(h))

FairSpec == Spec /\ Fairness

(* The runs that exercise retryStream and the session's channels. *)
RetryFairSpec == InitOf(RetryRuns \cup StreamRuns) /\ [][Next]_vars /\ Fairness

----------------------------------------------------------------------------
(* Properties *)

RECURSIVE Pow2(_)
Pow2(n) == IF n = 0 THEN 1 ELSE 2 * Pow2(n - 1)

Returned == coordPc = "returned"
Passed == ValidationError(cfg) = Nil

(* The unit of host h has sent a value on errChannel. *)
Reported(h) == \E k \in 1..Len(written) : written[k].host = h

(* The unit of host h has not been started. *)
NotStarted(h) == upc[h] = "idle" /\ outcomes[h] = <<>>

(* retryStream has returned in the unit of host h. *)
ConnectorDone(h) == upc[h] \notin {"idle", "begin", "connect", "backoff"}

(* The backoff waits the unit of host h has completed. *)
Retries(h) ==
    IF upc[h] = "connect" THEN Len(outcomes[h])
    ELSE IF outcomes[h] = <<>> THEN 0 ELSE Len(outcomes[h]) - 1

(* C1: for a request that passes validation, Exec returns nil and prints   *)
(* the success banner only if no unit reported an error: once a unit has   *)
(* sent an error, the banner is not printed and Exec, when it has          *)
(* returned, has returned a non-nil error.                                 *)
C1_SuccessOnlyIfAllSucceeded ==
    (Passed /\ written # <<>>) => (~banner /\ (Returned => result # Nil))

(* C2: Exec always eventually returns, in sync and in async mode, whatever *)
(* the outcomes of the hosts.                                              *)
C2_ExecReturns == <>Returned

(* C3: in sync mode, once the unit of host i has reported an error, no     *)
(* unit of a later host is ever started, and what Exec returns is that     *)
(* host's error.                                                           *)
C3_SyncStopsAtFirstError ==
    cfg.sync =>
        \A i \in Hosts :
            Reported(i) =>
                /\ \A j \in Hosts : j > i => NotStarted(j)
                /\ Returned => result.host = i

(* C4: in async mode, an error returned by Exec is the first value that    *)
(* was sent on errChannel, whatever is sent on it later.                   *)
C4_FirstErrorReturned ==
    (~cfg.sync /\ Passed /\ Returned /\ result # Nil) =>
        (written # <<>> /\ result = written[1])

(* C4 witness: Exec has returned the first error while another unit, still *)
(* running, has sent a different error after it.                           *)
C4_Witness ==
    /\ ~cfg.sync /\ Returned
    /\ Len(written) >= 2
    /\ result = written[1]
    /\ written[2].host # written[1].host
    /\ upc[written[2].host] # "finished"

(* C5 as stated: retryStream returns the error of the last failed attempt, *)
(* and no connect attempt, the first included, begins once the retry       *)
(* deadline has elapsed.                                                   *)
C5_NoAttemptAfterDeadline ==
    \A h \in AllHosts :
        /\ (ConnectorDone(h) /\ outcomes[h][Len(outcomes[h])] = "OpError") =>
               err[h] = Err("OpError", h, Len(outcomes[h]))
        /\ outcomes[h] # <<>> => started[h] < cfg.retryTimeout

(* C5 amended: retryStream returns the error of the last failed attempt    *)
(* when the deadline ends a backoff wait, and every attempt after the      *)
(* first begins no later than the instant the deadline expires.            *)
C5_NoRetryAfterDeadline ==
    \A h \in AllHosts :
        /\ (ConnectorDone(h) /\ outcomes[h][Len(outcomes[h])] = "OpError") =>
               err[h] = Err("OpError", h, Len(outcomes[h]))
        /\ Len(outcomes[h]) >= 2 => started[h] <= cfg.retryTimeout

(* C5 witness: the deadline has ended the backoff wait that followed a     *)
(* second transient failure, and the connector has returned that error.    *)
C5_Witness ==
    \E h \in AllHosts :
        /\ outcomes[h] = <<"OpError", "OpError">>
        /\ upc[h] = "sendConnErr"
        /\ now[h] = cfg.retryTimeout
        /\ started[h] < cfg.retryTimeout

(* C6: an attempt that fails with an error that is no net.OpError is the   *)
(* last attempt: retryStream returns that error with no backoff wait after *)
(* it; if it was the first attempt, no wait happened at all.               *)
C6_NonTransientFailsFast ==
    \A h \in AllHosts :
        \A k \in 1..Len(outcomes[h]) :
            outcomes[h][k] = "ConnectError" =>
                /\ k = Len(outcomes[h])
                /\ upc[h] \in {"sendConnErr", "wgDone", "finished"}
                /\ err[h] = Err("ConnectError", h, k)
                /\ wait[h] = Pow2(k - 1)
                /\ waited[h] = Pow2(k - 1) - 1

(* C6 witness: a non-transient failure after a retried transient one, in a *)
(* unit that has run to its end.                                           *)
C6_Witness ==
    \E h \in AllHosts :
        /\ outcomes[h] = <<"OpError", "ConnectError">>
        /\ upc[h] = "finished"
        /\ now[h] < cfg.retryTimeout

(* C7: after r completed backoff waits the wait is 2^r, so the wait before *)
(* the k-th retry is 2^(k-1), and the waits add up to at least 2^r - 1.    *)
C7_BackoffDoubles ==
    \A h \in AllHosts :
        /\ wait[h] = Pow2(Retries(h)) * InitialWait
        /\ waited[h] >= (Pow2(Retries(h)) - 1) * InitialWait

(* C7 witness: a unit about to start its third attempt after two waits. *)
C7_Witness ==
    \E h \in AllHosts :
        /\ upc[h] = "connect"
        /\ outcomes[h] = <<"OpError", "OpError">>
        /\ waited[h] = 3

(* C8: after the loop the outcome is the recorded error if there is one,   *)
(* and the CommandTimeout error only otherwise: a unit with a non-nil      *)
(* recorded error does not go on to report CommandTimeout.                 *)
C8_ErrorBeforeTimeout ==
    \A h \in AllHosts :
        (ConnectorDone(h) /\ ~(upc[h] = "loop") /\ err[h] # Nil) =>
            /\ upc[h] # "sendTimeout"
            /\ \A k \in 1..Len(written) : written[k] # CommandTimeOut(h)

(* C9: a request with no host or with an empty user name is answered with *)
(* the MissingHostOrUser error, before any unit is started.                *)
C9_MissingHostOrUser ==
    ((cfg.nHosts = 0 \/ ~cfg.user) /\ coordPc # "validate") =>
        /\ Returned
        /\ result = MissingHostOrUser
        /\ \A h \in AllHosts : NotStarted(h)

(* C10: a request that passes the host/user check and has both a key and a *)
(* password is answered with the ConflictingCredentials error, whatever    *)
(* the key path, and no unit is started.                                   *)
C10_ConflictingCredentials ==
    (~(cfg.nHosts = 0 /\ ~cfg.user) /\ cfg.key /\ cfg.password /\ coordPc # "validate") =>
        /\ Returned
        /\ result = SetPasswordandKey
        /\ ~banner
        /\ \A h \in AllHosts : NotStarted(h)

(* C10 witness: such a request with a key path and a host has been         *)
(* answered.                                                               *)
C10_Witness ==
    /\ cfg.key /\ cfg.password /\ cfg.keyPath /\ cfg.user /\ cfg.nHosts = 1
    /\ Returned
    /\ result = SetPasswordandKey

(* The unit of host h is started and has not signalled the counter. *)
Active(h) == upc[h] \notin {"idle", "finished"}

(* C11: in sync mode at most one unit is active and a unit is started only *)
(* when the units of all earlier hosts have finished; in async mode the    *)
(* units are started one per host in list order, whatever the state of the *)
(* units started before, and all are started when Exec reaches its select. *)
C11_SyncSequentialAsyncFanout ==
    /\ cfg.sync =>
          /\ Cardinality({h \in Hosts : Active(h)}) <= 1
          /\ \A i, j \in Hosts : (i < j /\ ~NotStarted(j)) => upc[i] = "finished"
    /\ (~cfg.sync /\ Passed /\ coordPc # "validate") =>
          /\ \A h \in Hosts : (upc[h] = "idle") = (h >= idx)
          /\ coordPc \in {"select", "returned"} => idx = cfg.nHosts + 1

(* C11 witness: in sync mode the unit of host 2 is at its first connect    *)
(* attempt after the unit of host 1 has finished.                          *)
C11_Witness ==
    /\ cfg.sync
    /\ cfg.nHosts >= 2
    /\ upc[1] = "finished"
    /\ upc[2] = "connect"
    /\ outcomes[2] = <<>>

RECURSIVE ShellParse(_, _, _, _)
ShellParse(s, q, cur, inw) ==
    IF s = <<>>
    THEN IF q THEN <<<<"unterminated">>>> ELSE IF inw THEN <<cur>> ELSE <<>>
    ELSE LET c == Head(s)
             rest == Tail(s)
         IN IF q
            THEN IF c = Quote THEN ShellParse(rest, FALSE, cur, TRUE)
                 ELSE ShellParse(rest, TRUE, Append(cur, c), TRUE)
            ELSE IF c = Quote THEN ShellParse(rest, TRUE, cur, TRUE)
                 ELSE IF c = Backslash
                      THEN IF rest = <<>> THEN ShellParse(rest, FALSE, cur, inw)
                           ELSE ShellParse(Tail(rest), FALSE, Append(cur, Head(rest)), TRUE)
                 ELSE IF c = " "
                      THEN (IF inw THEN <<cur>> ELSE <<>>)
                              \o ShellParse(rest, FALSE, <<>>, FALSE)
                 ELSE ShellParse(rest, FALSE, Append(cur, c), TRUE)

ShellWords(s) == ShellParse(s, FALSE, <<>>, FALSE)

(* The names of the allow list whose upper-cased form the environment sets. *)
Forwarded ==
    SelectSeq(cfg.envs, LAMBDA k : ToUpper(k) \in DOMAIN cfg.environ)

(* C13: once a unit has built its env block, the block holds one           *)
(* assignment for each allow-listed name whose upper-cased form is set in  *)
(* the environment, and a shell reads each assignment as the single word   *)
(* NAME=value with the value as it is in the environment.                  *)
C13_EscapeRoundTrip ==
    \A h \in AllHosts :
        upc[h] \notin {"idle", "begin"} =>
            /\ Len(envBlock[h]) = Len(Forwarded)
            /\ \A i \in 1..Len(envBlock[h]) :
                  ShellWords(envBlock[h][i]) =
                      <<ToUpper(Forwarded[i]) \o <<"=">> \o cfg.environ[ToUpper(Forwarded[i])]>>

(* C13 witness: a value with a quote between two letters has been          *)
(* forwarded for the allow-listed name k.                                  *)
C13_Witness ==
    \E h \in AllHosts :
        /\ upc[h] = "connect"
        /\ cfg.envs = <<<<"j">>, <<"k">>>>
        /\ <<"K">> \in DOMAIN cfg.environ
        /\ cfg.environ[<<"K">>] = <<"a", Quote, "a">>
        /\ envBlock[h] = <<<<"K", "=", Quote, "a", Quote, Backslash, Quote, Quote, "a", Quote>>>>

(* The number of values the unit of host h has sent on errChannel. *)
Writes(h) == Cardinality({k \in 1..Len(written) : written[k].host = h})

(* C14: a unit sends on errChannel at most once in a run, and not at all   *)
(* when it has no error and no timeout to report; after its one send it    *)
(* has no further send to make.                                            *)
C14_OneWritePerUnit ==
    \A h \in AllHosts :
        /\ Writes(h) <= 1
        /\ (Writes(h) = 1) => upc[h] \in {"wgDone", "finished"}

(* C15: in async mode, once Exec has returned the first error, every unit  *)
(* eventually finishes and signals the counter.                            *)
C15_UnitsFinishAfterEarlyReturn ==
    (~cfg.sync /\ Passed /\ Returned /\ result # Nil)
        ~> (\A h \in Hosts : upc[h] = "finished")

(* retryStream has returned the channels of an opened session to h's unit. *)
Opened(h) == outcomes[h] # <<>> /\ outcomes[h][Len(outcomes[h])] = "nil"

(* C16: a unit whose session was opened stays in its loop, with nothing    *)
(* sent on errChannel and the counter not signalled, until a value has     *)
(* been received on doneChan; lines and errChan values do not end the loop.*)
C16_LoopEndsOnDoneOnly ==
    \A h \in AllHosts :
        (Opened(h) /\ ~doneRecv[h]) => (upc[h] = "loop" /\ Writes(h) = 0)

(* C16 witness: a unit still in its loop after a stdout line, a stderr     *)
(* line and a non-nil error.                                               *)
C16_Witness ==
    \E h \in AllHosts :
        /\ upc[h] = "loop"
        /\ outLines[h] >= 1
        /\ errLines[h] >= 1
        /\ err[h] # Nil
        /\ ~doneRecv[h]

(* C17: a unit that received a non-nil value on errChan before the         *)
(* completion signal ends with an error: when it signals the counter it    *)
(* has reported one, whatever errChan delivered afterwards.                *)
C17_ErrorIsKept ==
    \A h \in AllHosts :
        (errSeen[h] /\ upc[h] \in {"wgDone", "finished"}) => Writes(h) >= 1

(* The units that have signalled the counter. *)
Signalled == {h \in Hosts : upc[h] = "finished"}

(* C18: the counter is the number of hosts less the number of units that   *)
(* have signalled, each at most once, and never negative; 'finished' is    *)
(* closed, once, by the waiter only when all units have signalled, so the  *)
(* all-finished branch (the banner) is taken only then.                    *)
C18_FinishedMeansAllDone ==
    (Passed /\ coordPc # "validate") =>
        /\ wg = cfg.nHosts - Cardinality(Signalled)
        /\ wg >= 0
        /\ finished = (waiterPc = "closed")
        /\ finished => Signalled = Hosts
        /\ banner => (finished /\ Signalled = Hosts)

(* C18 witness: Exec has taken the all-finished branch in a run on several *)
(* hosts.                                                                  *)
C18_Witness ==
    /\ cfg.nHosts >= 2
    /\ ~cfg.sync
    /\ Returned /\ banner /\ result = Nil
    /\ Signalled = Hosts

(* What holds of retryStream in every state: it returns only after an      *)
(* attempt; an attempt that opens the session is the last one, whatever    *)
(* the clock; a returned net.OpError is that of the last attempt; and an   *)
(* attempt after the first was preceded by waits that fit in the deadline. *)
RetryStreamSafe ==
    \A h \in AllHosts :
        /\ ConnectorDone(h) => Len(outcomes[h]) >= 1
        /\ Opened(h) => ConnectorDone(h)
        /\ (upc[h] = "sendConnErr" /\ outcomes[h][Len(outcomes[h])] = "OpError") =>
               err[h] = Err("OpError", h, Len(outcomes[h]))
        /\ Len(outcomes[h]) >= 2 =>
               (Pow2(Len(outcomes[h]) - 1) - 1) * InitialWait <= cfg.retryTimeout

(* C19: retryStream always returns: a unit that is to make a connect       *)
(* attempt makes at least one and only finitely many, and then goes on     *)
(* with the channels of the session or with the error of its last attempt. *)
C19_RetryStreamTerminates ==
    /\ []RetryStreamSafe
    /\ \A h \in AllHosts : (upc[h] = "connect") ~> ConnectorDone(h)

(* C19 witness: retryStream has returned the third net.OpError when the    *)
(* deadline had passed.                                                    *)
C19_Witness ==
    \E h \in AllHosts :
        /\ outcomes[h] = <<"OpError", "OpError", "OpError">>
        /\ upc[h] = "sendConnErr"
        /\ err[h] = Err("OpError", h, 3)
        /\ now[h] >= cfg.retryTimeout

(* The lines of h's unit logged with a tag, and those of a stream. *)
Tagged(h, tag) == SelectSeq(log[h], LAMBDA l : l.msg.tag = tag)
OfStream(h, stream) == SelectSeq(log[h], LAMBDA l : l.msg.stream = stream)

(* The lines in lines are the first lines sent on stream, in order. *)
IsPrefixOfStream(lines, stream) ==
    /\ Len(lines) <= remote.maxLines
    /\ \A i \in 1..Len(lines) : lines[i].msg.stream = stream /\ lines[i].msg.n = i

(* C20: in each unit the lines logged with "out:" are, in order, the first *)
(* lines sent on stdoutChan, those logged with "err:" the first lines sent *)
(* on stderrChan, and no line of a stream is logged with another tag.      *)
C20_LinesInOrder ==
    \A h \in AllHosts :
        /\ IsPrefixOfStream(Tagged(h, "out:"), "stdout")
        /\ IsPrefixOfStream(Tagged(h, "err:"), "stderr")
        /\ OfStream(h, "stdout") = Tagged(h, "out:")
        /\ OfStream(h, "stderr") = Tagged(h, "err:")
        /\ Len(Tagged(h, "out:")) = outLines[h]
        /\ Len(Tagged(h, "err:")) = errLines[h]

(* C20 witness: a unit has left its loop after logging a stderr line and   *)
(* then a stdout line.                                                     *)
C20_Witness ==
    \E h \in AllHosts :
        /\ doneRecv[h]
        /\ Len(log[h]) >= 2
        /\ log[h][Len(log[h])].msg = OutMsg(1)
        /\ log[h][Len(log[h]) - 1].msg = ErrMsg(1)

====
